---- MODULE Spec2Model ----
(***************************************************************************)
(* Model of seek.py: the RecommendationSystem class (user registry,        *)
(* lower-cased interest index, recommendation query) and the menu loop of  *)
(* main().                                                                 *)
(*                                                                         *)
(* Number representation.  Python floats are modelled in fixed point:      *)
(*   latitude, longitude      in units of 10^-4 degree                     *)
(*   distance, max_distance   in units of 10^-4 km                         *)
(*   min_similarity           in units of 10^-3                            *)
(*   Jaccard similarity       as the exact fraction num/den                *)
(*   round(x, 2)              in units of 10^-2                            *)
(* Strings are sequences of one-character strings, so that str.lower(),    *)
(* str.strip() and str.split(",") are computed character by character.     *)
(***************************************************************************)
EXTENDS Integers, Sequences, FiniteSets, TLC

VARIABLES
    users,           \* self.users: user_id -> User
    interest_index,  \* self.interest_index: defaultdict(set), key -> set of ids
    current_id,      \* self.current_id
    choice,          \* main(): the menu choice being served, "" at the loop top
    ret              \* the call in progress / just returned, with its outcome

vars == <<users, interest_index, current_id, choice, ret>>

\* Number of user identifiers the callers draw from (1..MaxUsers).
MaxUsers == 3

------------------------------------------------------------------------------
(* Strings *)

Str2(a, b) == <<a, b>>
Str3(a, b, c) == <<a, b, c>>

\* str.lower(), per character, on the alphabet the inputs use.
LowerChar(c) ==
    CASE c = "A" -> "a"
      [] c = "G" -> "g"
      [] c = "S" -> "s"
      [] c = "O" -> "o"
      [] OTHER -> c

RECURSIVE lower(_)
lower(s) == IF s = <<>> THEN <<>> ELSE <<LowerChar(Head(s))>> \o lower(Tail(s))

IsSpace(c) == c = " "

RECURSIVE lstrip(_)
lstrip(s) == IF s # <<>> /\ IsSpace(Head(s)) THEN lstrip(Tail(s)) ELSE s

RECURSIVE rstrip(_)
rstrip(s) ==
    IF s # <<>> /\ IsSpace(s[Len(s)]) THEN rstrip(SubSeq(s, 1, Len(s) - 1)) ELSE s

\* str.strip()
strip(s) == rstrip(lstrip(s))

\* str.split(","): the sequence of fields between commas (never empty).
RECURSIVE split(_)
split(s) ==
    IF \A i \in DOMAIN s : s[i] # ","
    THEN <<s>>
    ELSE LET k == CHOOSE i \in DOMAIN s :
                      s[i] = "," /\ \A j \in 1..(i - 1) : s[j] # ","
         IN  <<SubSeq(s, 1, k - 1)>> \o split(SubSeq(s, k + 1, Len(s)))

\* main(): {interest.strip().lower() for interest in input.split(",") if interest.strip()}
ParseInterests(interests_input) ==
    LET parts == split(interests_input)
    IN  {lower(strip(parts[i])) : i \in {j \in DOMAIN parts : strip(parts[j]) # <<>>}}

------------------------------------------------------------------------------
(* Input domains *)

go  == Str2("g", "o")
Go  == Str2("G", "o")
art == Str3("a", "r", "t")
ski == Str3("s", "k", "i")

\* Interest sets handed to add_user by an API caller (not normalised by it).
InterestChoices == {{}, {go}, {Go, art}, {go, art}}

\* Lines typed at the "Enter interests" prompt of main().
InterestLines ==
    { <<>>,
      <<" ", "G", "o", " ", ",">>,
      <<"g", "o", ",", " ", "A", "r", "t">>,
      <<"s", "k", "i", ",", ",", "g", "o">> }

\* Lines typed at the "Enter name" prompt of main().
NameLines == { <<" ", "A", "l">> }

Names == { Str2("A", "l") }

\* Coordinates (latitude, longitude) in 10^-4 degree.
LocB == <<407214, -739977>>
LocC == <<407306, -739866>>
LocD == <<407306, -739977>>

\* Locations of the users an API caller adds.
Locations == {LocB, LocC}

\* Numbers typed at the prompts of main(); some are out of range.
TypedLatitudes == {407214, 407306, 950000}
TypedLongitudes == {-739977, 1850000}
TypedUserIds == 0..(MaxUsers + 1)
TypedMaxDistances == {-10000, 10000, 13880}
TypedMinSimilarities == {0, 333, 1500}
TypedLimits == {0, 1, 2}
TypedChoices == {"1", "2", "3", "4", "9"}

UserIds == 1..MaxUsers
QueryIds == 1..(MaxUsers + 1)
MaxDistances == {10000, 13880}
MinSimilarities == {0, 333}
Limits == {1, 2}

None == "None"

User(user_id, name, interests, latitude, longitude) ==
    [user_id |-> user_id, name |-> name, interests |-> interests,
     latitude |-> latitude, longitude |-> longitude]

------------------------------------------------------------------------------
(* RecommendationSystem *)

\* add_user, line 22: self.users[user.user_id] = user
StoreUser(reg, user) ==
    [k \in DOMAIN reg \cup {user.user_id} |->
        IF k = user.user_id THEN user ELSE reg[k]]

\* Variant of IndexKey: the interest is indexed as given, without lower().
IndexKeyRaw(interest) == interest

\* add_user, line 24: the key an interest is indexed under
IndexKey(interest) == lower(interest)

\* defaultdict(set).__getitem__ on every key of keys: a missing key is created
\* with an empty set.
Touch(idx, keys) ==
    [k \in DOMAIN idx \cup keys |-> IF k \in DOMAIN idx THEN idx[k] ELSE {}]

\* add_user, lines 23-24: self.interest_index[interest.lower()].add(user.user_id)
IndexUser(idx, user) ==
    LET keys == {IndexKey(t) : t \in user.interests}
        idx1 == Touch(idx, keys)
    IN  [k \in DOMAIN idx1 |->
            IF k \in keys THEN idx1[k] \cup {user.user_id} ELSE idx1[k]]

\* calculate_distance, lines 28-39, as the source evaluates it on the coordinates
\* LocB, LocC, LocD, to the nearest 10^-4 km:
\*   LocB-LocC 1.3861589980165483 km, LocB-LocD 1.022993325130386 km,
\*   LocC-LocD 0.9353076931175491 km, and 0.0 from a point to itself.
calculate_distance(lat1, lon1, lat2, lon2) ==
    CASE <<lat1, lon1>> = <<lat2, lon2>> -> 0
      [] {<<lat1, lon1>>, <<lat2, lon2>>} = {LocB, LocC} -> 13862
      [] {<<lat1, lon1>>, <<lat2, lon2>>} = {LocB, LocD} -> 10230
      [] {<<lat1, lon1>>, <<lat2, lon2>>} = {LocC, LocD} -> 9353

\* calculate_interest_similarity, lines 43-45: the fraction intersection / union,
\* and 0 when the union is empty.
calculate_interest_similarity(user1, user2) ==
    LET intersection == Cardinality(user1.interests \cap user2.interests)
        union == Cardinality(user1.interests \cup user2.interests)
    IN  IF union > 0 THEN [num |-> intersection, den |-> union]
                     ELSE [num |-> 0, den |-> 1]

\* round(): n/d (n >= 0, d > 0) to the nearest integer, ties to even.
RoundHalfEven(n, d) ==
    LET q == n \div d
        r == n % d
    IN  IF 2 * r < d THEN q
        ELSE IF 2 * r > d THEN q + 1
        ELSE IF q % 2 = 0 THEN q ELSE q + 1

\* line 81: round(distance, 2), in 10^-2 km
RoundDistance(distance) == RoundHalfEven(distance, 100)

\* line 82: round(similarity, 2), in 10^-2
RoundSimilarity(similarity) == RoundHalfEven(100 * similarity.num, similarity.den)

\* Variant of UserFound: the membership test is missing.
UserFoundAlways(reg, user_id) == TRUE

\* line 50: user_id in self.users
UserFound(reg, user_id) == user_id \in DOMAIN reg

\* Variant of LookupKeys: the index is looked up with the interest as stored.
LookupKeysRaw(target_user) == target_user.interests

\* lines 56-57: the keys looked up in the index for the target user
LookupKeys(target_user) == {lower(t) : t \in target_user.interests}

\* Variant of Candidates: candidates.discard(user_id) is missing.
CandidatesWithSelf(idx, target_user, user_id) ==
    UNION {idx[k] : k \in {lower(t) : t \in target_user.interests}}

\* Variant of Candidates: every indexed user is a candidate, whatever its tags.
CandidatesAll(idx, target_user, user_id) ==
    UNION {idx[k] : k \in DOMAIN idx} \ {user_id}

\* lines 54-59: the candidate set
Candidates(idx, target_user, user_id) ==
    UNION {idx[k] : k \in LookupKeys(target_user)} \ {user_id}

\* lines 65-68
Distance(target_user, candidate) ==
    calculate_distance(target_user.latitude, target_user.longitude,
                       candidate.latitude, candidate.longitude)

\* Variant of PassesDistance: the comparison is the wrong way round.
PassesDistanceInverted(distance, max_distance) == ~(distance < max_distance)

\* lines 70-71: the candidate is kept unless distance > max_distance
PassesDistance(distance, max_distance) == ~(distance > max_distance)

\* lines 75-76: the candidate is kept unless similarity < min_similarity
\* (num/den against min_similarity/1000)
PassesSimilarity(similarity, min_similarity) ==
    ~(1000 * similarity.num < min_similarity * similarity.den)

\* lines 70-76
Survives(target_user, candidate, max_distance, min_similarity) ==
    /\ PassesDistance(Distance(target_user, candidate), max_distance)
    /\ PassesSimilarity(calculate_interest_similarity(target_user, candidate),
                        min_similarity)

\* lines 78-84: the record appended for a surviving candidate
Recommendation(target_user, candidate) ==
    [user_id |-> candidate.user_id,
     name |-> candidate.name,
     distance |-> RoundDistance(Distance(target_user, candidate)),
     similarity |->
         RoundSimilarity(calculate_interest_similarity(target_user, candidate)),
     common_interests |-> target_user.interests \cap candidate.interests]

\* Variant of KeyLess: the key is (similarity, distance), ascending similarity.
KeyLessAscending(x, y) ==
    \/ x.similarity < y.similarity
    \/ x.similarity = y.similarity /\ x.distance < y.distance

\* line 86: the sort key (-similarity, distance) of x is smaller than that of y
KeyLess(x, y) ==
    \/ x.similarity > y.similarity
    \/ x.similarity = y.similarity /\ x.distance < y.distance

\* list.sort is stable: x goes before the first element with a greater key.
InsertSorted(sorted, x) ==
    LET later == {i \in DOMAIN sorted : KeyLess(x, sorted[i])}
        k == IF later = {} THEN Len(sorted) + 1
             ELSE CHOOSE i \in later : \A j \in later : i <= j
    IN  SubSeq(sorted, 1, k - 1) \o <<x>> \o SubSeq(sorted, k, Len(sorted))

RECURSIVE SortFrom(_, _)
SortFrom(sorted, rest) ==
    IF rest = <<>> THEN sorted
    ELSE SortFrom(InsertSorted(sorted, Head(rest)), Tail(rest))

\* line 86: recommendations.sort(key=...)
Sort(recommendations) == SortFrom(<<>>, recommendations)

Min(a, b) == IF a < b THEN a ELSE b
Max(a, b) == IF a > b THEN a ELSE b

\* line 87: recommendations[:limit]
Slice(recommendations, limit) ==
    IF limit >= 0
    THEN SubSeq(recommendations, 1, Min(limit, Len(recommendations)))
    ELSE SubSeq(recommendations, 1, Max(Len(recommendations) + limit, 0))

\* The orders in which "for candidate_id in candidates" may visit a set.
IterationOrders(S) ==
    {f \in [1..Cardinality(S) -> S] : \A i, j \in DOMAIN f : f[i] = f[j] => i = j}

\* lines 62-84: the loop over the candidates in the order given
RECURSIVE Collect(_, _, _, _, _)
Collect(reg, target_user, order, max_distance, min_similarity) ==
    IF order = <<>> THEN <<>>
    ELSE LET candidate == reg[Head(order)]
             rest == Collect(reg, target_user, Tail(order),
                             max_distance, min_similarity)
         IN  IF Survives(target_user, candidate, max_distance, min_similarity)
             THEN <<Recommendation(target_user, candidate)>> \o rest
             ELSE rest

\* The outcome of a call: what it returned or raised, the candidates it looked
\* up in the registry, and the interest index it leaves behind.
Outcome(kind, value, examined, index) ==
    [kind |-> kind, value |-> value, examined |-> examined, index |-> index]

\* get_recommendations, lines 50-87: the outcomes the call can have, one for each
\* order in which the candidate set may be iterated.
get_recommendations(reg, idx, user_id, max_distance, min_similarity, limit) ==
    IF ~UserFound(reg, user_id)
    THEN {Outcome("ValueError", <<>>, {}, idx)}
    ELSE IF user_id \notin DOMAIN reg
    THEN {Outcome("KeyError", <<>>, {}, idx)}
    ELSE LET target_user == reg[user_id]
             idx1 == Touch(idx, LookupKeys(target_user))
             candidates == Candidates(idx1, target_user, user_id)
         IN  IF ~(candidates \subseteq DOMAIN reg)
             THEN {Outcome("KeyError", <<>>, candidates, idx1)}
             ELSE {Outcome("list",
                           Slice(Sort(Collect(reg, target_user, order,
                                              max_distance, min_similarity)),
                                 limit),
                           candidates, idx1)
                   : order \in IterationOrders(candidates)}

\* Variant of add_user: the identifier is first removed from every index set.
add_user_reindexing(reg, idx, user) ==
    [users |-> [k \in DOMAIN reg \cup {user.user_id} |->
                   IF k = user.user_id THEN user ELSE reg[k]],
     index |-> LET keys == {lower(t) : t \in user.interests}
               IN  [k \in DOMAIN idx \cup keys |->
                       ((IF k \in DOMAIN idx THEN idx[k] ELSE {}) \ {user.user_id})
                       \cup (IF k \in keys THEN {user.user_id} ELSE {})]]

\* add_user, lines 20-24
add_user(reg, idx, user) ==
    [users |-> StoreUser(reg, user), index |-> IndexUser(idx, user)]

\* get_valid_float / get_valid_int, lines 89-117: the values the loop can return
\* when the values of typed are entered.  A limit is <<v>>, and <<>> for None.
get_valid_number(typed, min_val, max_val) ==
    {value \in typed :
        /\ ~(min_val # <<>> /\ value < min_val[1])
        /\ ~(max_val # <<>> /\ value > max_val[1])}

------------------------------------------------------------------------------
(* Calls *)

Call(op, args, kind, value, examined) ==
    [op |-> op, args |-> args, kind |-> kind, value |-> value, examined |-> examined]

Idle == Call("none", None, None, <<>>, {})

GetArgs(user_id, max_distance, min_similarity, limit) ==
    [user_id |-> user_id, max_distance |-> max_distance,
     min_similarity |-> min_similarity, limit |-> limit]

\* lines 15-18 (and main() before its first prompt)
Init ==
    /\ users = <<>>
    /\ interest_index = <<>>
    /\ current_id = 1
    /\ choice = ""
    /\ ret = Idle

\* The users an API caller may hand to add_user.
NewUsers ==
    {User(id, name, interests, loc[1], loc[2]) :
        id \in UserIds, name \in Names, interests \in InterestChoices,
        loc \in Locations}

DoAddUser(user) ==
    LET after == add_user(users, interest_index, user)
    IN  /\ users' = after.users
        /\ interest_index' = after.index
        /\ ret' = Call("add_user", user, None, <<>>, {})

DoGetRecommendations(user_id, max_distance, min_similarity, limit) ==
    \E out \in get_recommendations(users, interest_index, user_id,
                                   max_distance, min_similarity, limit) :
        /\ interest_index' = out.index
        /\ ret' = Call("get_recommendations",
                       GetArgs(user_id, max_distance, min_similarity, limit),
                       out.kind, out.value, out.examined)
        /\ UNCHANGED users

\* rs.add_user(user) by a caller of the class, with any identifier
AddUserCall ==
    /\ ret.op = "none"
    /\ \E user \in NewUsers : DoAddUser(user)
    /\ UNCHANGED <<current_id, choice>>

\* rs.add_user(user) by a caller that never reuses an identifier
AddNewUserCall ==
    /\ ret.op = "none"
    /\ \E user \in NewUsers : user.user_id \notin DOMAIN users /\ DoAddUser(user)
    /\ UNCHANGED <<current_id, choice>>

\* rs.get_recommendations(...) by a caller of the class
GetRecommendationsCall ==
    /\ ret.op = "none"
    /\ \E user_id \in QueryIds, max_distance \in MaxDistances,
          min_similarity \in MinSimilarities, limit \in Limits :
            DoGetRecommendations(user_id, max_distance, min_similarity, limit)
    /\ UNCHANGED <<current_id, choice>>

\* The caller is done with the value returned (or the exception raised).
Return ==
    /\ ret.op # "none"
    /\ ret' = Idle
    /\ UNCHANGED <<users, interest_index, current_id, choice>>

Next == AddUserCall \/ GetRecommendationsCall \/ Return

Spec == Init /\ [][Next]_vars

NextUnique == AddNewUserCall \/ GetRecommendationsCall \/ Return

SpecUnique == Init /\ [][NextUnique]_vars

------------------------------------------------------------------------------
(* main(): one action per menu choice, from the prompt to the end of the loop  *)
(* body; MainLoop goes back to the top of "while True".                        *)

\* Variant of MainAddUser: rs.current_id += 1 is missing.
MainAddUserNoIncrement ==
    /\ choice = ""
    /\ "1" \in TypedChoices
    /\ current_id <= MaxUsers
    /\ \E name_input \in NameLines, interests_input \in InterestLines,
          latitude \in get_valid_number(TypedLatitudes, <<-900000>>, <<900000>>),
          longitude \in get_valid_number(TypedLongitudes, <<-1800000>>, <<1800000>>) :
            DoAddUser(User(current_id, strip(name_input),
                           ParseInterests(interests_input), latitude, longitude))
    /\ current_id' = current_id
    /\ choice' = "1"

\* lines 131-151
MainAddUser ==
    /\ choice = ""
    /\ "1" \in TypedChoices
    /\ current_id <= MaxUsers
    /\ \E name_input \in NameLines, interests_input \in InterestLines,
          latitude \in get_valid_number(TypedLatitudes, <<-900000>>, <<900000>>),
          longitude \in get_valid_number(TypedLongitudes, <<-1800000>>, <<1800000>>) :
            DoAddUser(User(current_id, strip(name_input),
                           ParseInterests(interests_input), latitude, longitude))
    /\ current_id' = current_id + 1
    /\ choice' = "1"

\* lines 153-192
MainGetRecommendations ==
    /\ choice = ""
    /\ "2" \in TypedChoices
    /\ choice' = "2"
    /\ UNCHANGED current_id
    /\ \/ /\ DOMAIN users = {}
          /\ ret' = Call("main", None, "NoUsers", <<>>, {})
          /\ UNCHANGED <<users, interest_index>>
       \/ /\ DOMAIN users # {}
          /\ \E user_id \in get_valid_number(TypedUserIds, <<>>, <<>>) :
                \/ /\ user_id \notin DOMAIN users
                   /\ ret' = Call("main", None, "NotFound", <<>>, {})
                   /\ UNCHANGED <<users, interest_index>>
                \/ /\ user_id \in DOMAIN users
                   /\ \E max_distance \in
                             get_valid_number(TypedMaxDistances, <<0>>, <<>>),
                         min_similarity \in
                             get_valid_number(TypedMinSimilarities, <<0>>, <<1000>>),
                         limit \in get_valid_number(TypedLimits, <<1>>, <<>>) :
                           DoGetRecommendations(user_id, max_distance,
                                                min_similarity, limit)

\* lines 194-203
MainListUsers ==
    /\ choice = ""
    /\ "3" \in TypedChoices
    /\ choice' = "3"
    /\ ret' = Call("main", None, "Listed", <<>>, DOMAIN users)
    /\ UNCHANGED <<users, interest_index, current_id>>

\* lines 205-207
MainExit ==
    /\ choice = ""
    /\ "4" \in TypedChoices
    /\ choice' = "4"
    /\ UNCHANGED <<users, interest_index, current_id, ret>>

\* lines 209-210
MainInvalid ==
    /\ choice = ""
    /\ \E typed \in TypedChoices \ {"1", "2", "3", "4"} : choice' = typed
    /\ UNCHANGED <<users, interest_index, current_id, ret>>

\* line 122: the next iteration of the loop
MainLoop ==
    /\ choice \notin {"", "4"}
    /\ choice' = ""
    /\ ret' = Idle
    /\ UNCHANGED <<users, interest_index, current_id>>

NextMain ==
    \/ MainAddUser
    \/ MainGetRecommendations
    \/ MainListUsers
    \/ MainExit
    \/ MainInvalid
    \/ MainLoop

SpecMain == Init /\ [][NextMain]_vars

------------------------------------------------------------------------------
(* Properties *)

\* get_recommendations has returned a list.
GotList == ret.op = "get_recommendations" /\ ret.kind = "list"

\* The records of the list returned.
Returned == {ret.value[i] : i \in DOMAIN ret.value}

\* A step that calls get_recommendations / add_user.
GetStep == ret.op = "none" /\ ret'.op = "get_recommendations"
AddStep == ret.op = "none" /\ ret'.op = "add_user"

\* The identifiers of the users that pass both filters for the call in ret.
SurvivorIds ==
    LET target == users[ret.args.user_id]
    IN  {c \in (UNION {interest_index[lower(t)] : t \in target.interests})
                   \ {ret.args.user_id} :
            /\ Distance(target, users[c]) <= ret.args.max_distance
            /\ 1000 * calculate_interest_similarity(target, users[c]).num >=
                   ret.args.min_similarity
                       * calculate_interest_similarity(target, users[c]).den}

\* Record x comes before record y: higher similarity, or the same similarity and
\* a smaller distance.
Before(x, y) ==
    \/ x.similarity > y.similarity
    \/ x.similarity = y.similarity /\ x.distance < y.distance

\* The tags of user c match a tag of user q after lower-casing.
SharesTag(q, c) ==
    \E t \in users[c].interests, u \in users[q].interests : lower(t) = lower(u)

\* C1 as stated: every record returned reports a distance (rounded to 2
\* decimals) <= max_distance and a similarity (rounded to 2 decimals) >=
\* min_similarity.
C1_ReportedWithinThresholds ==
    GotList =>
        \A rec \in Returned :
            /\ 100 * rec.distance <= ret.args.max_distance
            /\ 10 * rec.similarity >= ret.args.min_similarity

\* C1 amended: for every record returned, the unrounded distance between the
\* query user and the recommended user is <= max_distance and their unrounded
\* Jaccard similarity is >= min_similarity; the record reports these two values
\* rounded to 2 decimals.
C1_ExactWithinThresholds ==
    GotList =>
        \A rec \in Returned :
            LET target == users[ret.args.user_id]
                candidate == users[rec.user_id]
                similarity == calculate_interest_similarity(target, candidate)
            IN  /\ Distance(target, candidate) <= ret.args.max_distance
                /\ 1000 * similarity.num >= ret.args.min_similarity * similarity.den
                /\ rec.distance = RoundHalfEven(Distance(target, candidate), 100)
                /\ rec.similarity = RoundHalfEven(100 * similarity.num, similarity.den)

\* C1 witness: a record is returned whose reported distance is above max_distance
\* and whose reported similarity is below min_similarity.
C1_Witness ==
    /\ GotList
    /\ \E rec \in Returned :
          /\ 100 * rec.distance > ret.args.max_distance
          /\ 10 * rec.similarity < ret.args.min_similarity

\* C2: with limit >= 1 the list returned holds min(limit, n) records of the n
\* survivors, one per survivor, sorted by descending similarity and then
\* ascending distance, and no survivor left out comes before a returned record.
C2_SortedPrefix ==
    (GotList /\ ret.args.limit >= 1) =>
        LET target == users[ret.args.user_id]
            n == Cardinality(SurvivorIds)
            ids == {rec.user_id : rec \in Returned}
        IN  /\ Len(ret.value) = (IF ret.args.limit < n THEN ret.args.limit ELSE n)
            /\ Len(ret.value) <= ret.args.limit
            /\ ids \subseteq SurvivorIds
            /\ Cardinality(ids) = Len(ret.value)
            /\ \A rec \in Returned : rec = Recommendation(target, users[rec.user_id])
            /\ \A i, j \in DOMAIN ret.value :
                   i < j => ~Before(ret.value[j], ret.value[i])
            /\ \A c \in SurvivorIds \ ids : \A rec \in Returned :
                   ~Before(Recommendation(target, users[c]), rec)

\* C2 witness: two survivors, limit = 1, and the one returned has the higher
\* similarity.
C2_Witness ==
    /\ GotList
    /\ ret.args.limit = 1
    /\ Cardinality(SurvivorIds) = 2
    /\ \E c \in SurvivorIds : \E rec \in Returned :
          /\ c # rec.user_id
          /\ Recommendation(users[ret.args.user_id], users[c]).similarity
                 < rec.similarity

\* C3: no record returned has the user_id of the query user.
C3_NoSelf ==
    GotList => \A rec \in Returned : rec.user_id # ret.args.user_id

\* C3 witness: a non-empty list is returned to a query user that overwrote an
\* earlier record of its identifier and is in the index set of each of its tags.
C3_Witness ==
    /\ GotList
    /\ ret.value # <<>>
    /\ users[ret.args.user_id].interests # {}
    /\ \A t \in users[ret.args.user_id].interests :
          ret.args.user_id \in interest_index[lower(t)]
    /\ \E k \in DOMAIN interest_index :
          /\ ret.args.user_id \in interest_index[k]
          /\ k \notin {lower(t) : t \in users[ret.args.user_id].interests}

\* C4: a call of get_recommendations leaves the registry and the interest index,
\* its set of keys included, as they were, whether it returns or raises.
C4_ReadOnly ==
    [][GetStep =>
          /\ users' = users
          /\ DOMAIN interest_index' = DOMAIN interest_index
          /\ interest_index' = interest_index]_vars

\* C4 witness: a list is returned to a query user with a tag that is not itself a
\* key of the index (only its lower-cased form is).
C4_Witness ==
    /\ GotList
    /\ ret.value # <<>>
    /\ \E t \in users[ret.args.user_id].interests : t \notin DOMAIN interest_index

\* C5: called with a user_id that is not in the registry, get_recommendations
\* raises ValueError, with no candidate examined, no list, registry and index
\* unchanged; called with a user_id of the registry it returns a list, and every
\* candidate it looks up is in the registry.
C5_NotFound ==
    [][GetStep =>
          /\ ret'.args.user_id \notin DOMAIN users =>
                /\ ret'.kind = "ValueError"
                /\ ret'.value = <<>>
                /\ ret'.examined = {}
                /\ users' = users
                /\ interest_index' = interest_index
          /\ ret'.args.user_id \in DOMAIN users =>
                /\ ret'.kind = "list"
                /\ ret'.examined \subseteq DOMAIN users]_vars

\* C5 witness: ValueError is raised for an unknown identifier while users are
\* registered and indexed.
C5_Witness ==
    /\ ret.op = "get_recommendations"
    /\ ret.kind = "ValueError"
    /\ Cardinality(DOMAIN users) >= 2
    /\ DOMAIN interest_index # {}

\* C6: every identifier in a set of the interest index is a key of the registry,
\* and every user of the registry is in the index set of each of its tags,
\* lower-cased.
C6_IndexInvariant ==
    /\ \A k \in DOMAIN interest_index : interest_index[k] \subseteq DOMAIN users
    /\ \A id \in DOMAIN users : \A t \in users[id].interests :
          /\ lower(t) \in DOMAIN interest_index
          /\ id \in interest_index[lower(t)]

\* C6 witness: two users are registered, one with an upper-case tag, the other
\* after a record of its identifier was overwritten.
C6_Witness ==
    /\ ret.op = "none"
    /\ \E a, b \in DOMAIN users :
          /\ a # b
          /\ \E t \in users[a].interests : lower(t) # t
          /\ \E k \in DOMAIN interest_index :
                /\ b \in interest_index[k]
                /\ k \notin {lower(t) : t \in users[b].interests}

\* C7: with no identifier reused, every user returned has a tag whose lower-cased
\* form is the lower-cased form of a tag of the query user; a query user without
\* interests gets the empty list.
C7_SharedTag ==
    GotList =>
        /\ \A rec \in Returned : SharesTag(ret.args.user_id, rec.user_id)
        /\ users[ret.args.user_id].interests = {} => ret.value = <<>>

\* C7 witness: with min_similarity = 0, a user is returned that shares a tag with
\* the query user only after lower-casing, while another registered user has no
\* interests.
C7_Witness ==
    /\ GotList
    /\ ret.args.min_similarity = 0
    /\ \E rec \in Returned :
          users[rec.user_id].interests \cap users[ret.args.user_id].interests = {}
    /\ \E id \in DOMAIN users : users[id].interests = {}

\* C8: add_user with an identifier of the registry returns normally, replaces the
\* record, adds the identifier to the index sets of the new tags and leaves it in
\* every index set it was in.
C8_OverwriteKeepsStale ==
    [][(AddStep /\ ret'.args.user_id \in DOMAIN users) =>
          LET id == ret'.args.user_id
          IN  /\ ret'.kind = None
              /\ DOMAIN users' = DOMAIN users
              /\ users'[id] = ret'.args
              /\ \A k \in DOMAIN users \ {id} : users'[k] = users[k]
              /\ \A t \in ret'.args.interests :
                    /\ lower(t) \in DOMAIN interest_index'
                    /\ id \in interest_index'[lower(t)]
              /\ \A k \in DOMAIN interest_index :
                    /\ k \in DOMAIN interest_index'
                    /\ interest_index[k] \subseteq interest_index'[k]]_vars

\* C8 witness: with min_similarity = 0 a user is returned whose record has no tag
\* that matches the query user's: it is in the index set of t, the only key the
\* query user looks up that holds it, from a record that was overwritten.
C8_Witness ==
    /\ GotList
    /\ ret.args.min_similarity = 0
    /\ \E rec \in Returned : \E t \in DOMAIN interest_index :
          /\ rec.user_id \in interest_index[t]
          /\ t \notin {lower(x) : x \in users[rec.user_id].interests}
          /\ {k \in {lower(u) : u \in users[ret.args.user_id].interests} :
                 rec.user_id \in interest_index[k]} = {t}

\* C9, at the top of the loop: the keys of the registry are 1 .. current_id - 1.
C9_TopOfLoop == choice = "" => DOMAIN users = 1..(current_id - 1)

\* C9, the menu choices: "add user" stores the record under current_id, which is
\* not yet a key, keeps the other records and adds 1 to current_id; the other
\* choices leave registry, index and current_id unchanged.
C9_Choices ==
    /\ (choice = "" /\ choice' = "1") =>
          /\ current_id \notin DOMAIN users
          /\ DOMAIN users' = DOMAIN users \cup {current_id}
          /\ users'[current_id].user_id = current_id
          /\ \A k \in DOMAIN users : users'[k] = users[k]
          /\ current_id' = current_id + 1
    /\ (choice = "" /\ choice' \notin {"", "1"}) =>
          UNCHANGED <<users, interest_index, current_id>>

\* C9: in main(), identifiers are assigned by auto-increment from 1; no identifier
\* is assigned twice and only the "add user" choice changes the system.
C9_AutoIncrement == []C9_TopOfLoop /\ [][C9_Choices]_vars

\* C9 witness: recommendations were printed for a user after three users were
\* added.
C9_Witness ==
    /\ choice = "2"
    /\ GotList
    /\ ret.value # <<>>
    /\ current_id = 4
    /\ DOMAIN users = {1, 2, 3}

\* C10 as stated: with no identifier reused, every record returned has a non-empty
\* common_interests list and a Jaccard similarity greater than 0.
C10_SelectionAgreesWithSimilarity ==
    GotList =>
        \A rec \in Returned :
            /\ rec.common_interests # {}
            /\ calculate_interest_similarity(users[ret.args.user_id],
                                             users[rec.user_id]).num > 0

====
